---- MODULE Spec2Model ----
(***************************************************************************)
(* Model of cnaas_nms.confpush.sync_devices: the synchronization job that  *)
(* selects devices, checks them for configuration drift, runs the          *)
(* per-device pipeline push_sync_device through nornir and then records    *)
(* the new configuration hash and the synchronized flag of the devices     *)
(* that were pushed.  Jobs are started by the scheduler's worker pool, so  *)
(* several runs of sync_devices may be in progress at once; the running    *)
(* configuration of a device may also be altered outside of CNaaS at any   *)
(* time.  The module also follows one nornir run of push_sync_device stage  *)
(* by stage (SpecTask, with generate_only), and the settings request of the *)
(* API and the neighbor queries over the Linknet table (SpecDb).            *)
(***************************************************************************)
EXTENDS Integers, FiniteSets, Sequences, TLC

\* ---------------------------------------------------------------- bounds
\* devices in the inventory, distinct configuration texts, and how many runs
\* and outside alterations a behaviour may hold in all
NumDevices == 2
NumConfigs == 2
MaxEvents == 3

Devices == 1..NumDevices
Configs == 1..NumConfigs
Runs == {"job1", "job2"}
WorkerNo(r) == IF r = "job1" THEN 1 ELSE 2
DeviceTypes == {"ACCESS", "DIST"}

\* an absent device_type argument (falsy, like None, in "elif device_type")
NoType == ""

\* Python's None: a missing argument, a missing stored hash, a failed hash read
None == 0

\* get_running_config_hash: a content hash of the running configuration
ConfigHash(c) == 100 + c

\* the configuration a device runs before CNaaS has pushed one to it
FactoryConfig == NumConfigs

\* push_sync_device, lines 126-149: the configuration rendered for a device from
\* its templates, settings and topology, none of which this module changes
Rendered(device) == CHOOSE c \in Configs : \A x \in Configs : c <= x


\* ----------------------------------------------------------------- state
VARIABLES
    synchronized,     \* Device.synchronized, per device
    config_hash,      \* the stored configuration hash (Device.get_config_hash), or None
    running_config,   \* the configuration running on the device
    managed,          \* Device.state = MANAGED (the inventory's managed attribute)
    device_type,      \* Device.device_type (the inventory group T_<type>)
    run,              \* per job worker: the locals of its sync_devices call
    events,           \* how many runs were started and configurations altered
                      \* outside of CNaaS so far
    recorded,         \* per device: the hash recorded at its latest successful
                      \* non-dry-run push, None while that push has none recorded
    nr,               \* a nornir run of push_sync_device followed host by host
    task,             \* per host: the locals of its push_sync_device task
    response,         \* the answer of SettingsApi.get to the latest request
    linknets          \* the rows of the Linknet table

vars == <<synchronized, config_hash, running_config, managed, device_type,
          run, events, recorded, nr, task, response, linknets>>

\* what a sync_devices job followed at the level of whole tasks leaves alone
taskstate == <<nr, task, response, linknets>>

devstate == <<synchronized, config_hash, running_config, managed, device_type>>

\* ------------------------------------------------------------- helpers
RECURSIVE SortedSeq(_)
\* list(nr_filtered.inventory.hosts.keys()): the selected hosts, in inventory order
SortedSeq(S) ==
    IF S = {} THEN <<>>
    ELSE LET m == CHOOSE x \in S : \A y \in S : x <= y
         IN <<m>> \o SortedSeq(S \ {m})

SeqSet(s) == {s[k] : k \in 1..Len(s)}

IdleRun ==
    [pc |-> "idle", both_selectors |-> FALSE,
     dry_run |-> TRUE, force |-> FALSE, device_list |-> <<>>,
     i |-> 1, examined |-> {}, alterned |-> {}, drifted |-> {}, attempted |-> {}, failed_hosts |-> {},
     wrote_hash |-> {}, wrote_sync |-> {}, unread |-> {}]

Terminal == {"done", "drift_abort", "gate_hash_error", "run_error", "post_hash_error"}

Active(r) == run[r].pc # "idle"

\* the scheduler hands a job to the first worker that is not running one
FreeWorker ==
    IF \E r \in Runs : ~Active(r)
    THEN CHOOSE r \in Runs : ~Active(r) /\ \A q \in Runs : ~Active(q) => WorkerNo(r) <= WorkerNo(q)
    ELSE "none"

\* lines 205-213: the three selectors, hostname first, then device type
SelectDevices(hostname, devtype) ==
    IF hostname # None
    THEN {d \in Devices : d = hostname /\ managed[d]}
    ELSE IF devtype # NoType
         THEN {d \in Devices : device_type[d] = devtype}
         ELSE {d \in Devices : synchronized[d] = FALSE /\ managed[d]}

\* mutant: a device without a stored hash is checked like the others
NoStoredHashNever(stored) == FALSE

\* line 221: the device has no stored hash, the loop goes on to the next one
NoStoredHash(stored) == stored = None

\* mutant: a failed read of the running configuration's hash goes unnoticed
HashReadFailedNever(current) == FALSE

\* line 224: the hash of the running configuration could not be read
HashReadFailed(current) == current = None

\* mutant: no device counts as altered
HasDriftedNever(stored, current) == FALSE

\* mutant: every device that has a stored hash counts as altered
HasDriftedAlways(stored, current) == TRUE

\* line 226: the device's configuration was altered outside of CNaaS
HasDrifted(stored, current) == stored # current

\* mutant: the drift loop is left after its first device
GateLoopDoneEarly(i, device_list) == i > 1 \/ i > Len(device_list)

\* line 219: the drift loop has gone through device_list
GateLoopDone(i, device_list) == i > Len(device_list)

\* mutant: the drift gate lets every run through
GateAbortsNever(alterned, force) == FALSE

\* line 229: the drift gate aborts the run
GateAborts(alterned, force) == alterned # {} /\ force = FALSE

\* mutant: the failed hosts are not skipped
PostCommitTargetsAll(device_list, failed_hosts) == SeqSet(device_list)

\* lines 241-244, 251-254: the hosts whose state is updated after the push
PostCommitTargets(device_list, failed_hosts) == SeqSet(device_list) \ failed_hosts

\* mutant: the post-commit update also runs on a dry run
AfterPipelineAlways(dry_run) == "hash"

\* line 241: the post-commit update is skipped on a dry run
AfterPipeline(dry_run) == IF dry_run THEN "done" ELSE "hash"

\* ------------------------------------------------- push_sync_device data
\* DeviceType, as far as push_sync_device tells its members apart
DeviceRoles == {"ACCESS", "DIST", "CORE"}

\* Device.management_ip of a device that has one
MgmtIp(h) == 10 + h

\* a local variable that no assignment has bound yet
Unbound == -1

\* a Python dict as a function from its keys; the empty dict
EmptyDict == [k \in {} |-> None]

\* {**a, **b}: the keys of both dicts, with b's value for a key both have
Merge(a, b) ==
    [k \in (DOMAIN a) \cup (DOMAIN b) |-> IF k \in DOMAIN b THEN b[k] ELSE a[k]]

\* Interface.interface_index_num: the number in an interface name, ValueError
\* (None here) for a name that holds none
InterfaceIndexNum(ifname) ==
    IF ifname = "Ethernet1" THEN 1 ELSE IF ifname = "Ethernet2" THEN 2 ELSE None

\* the interface entries settings may hold for a device
IntfDownlink == [name |-> "Ethernet1", ifname |-> "Ethernet1", ifclass |-> "downlink"]
IntfCustom == [name |-> "Loopback0", ifname |-> "Loopback0", ifclass |-> "custom",
               config |-> "no shutdown"]
IntfPort == [name |-> "Ethernet2", ifname |-> "Ethernet2", ifclass |-> "port_template"]

\* get_settings(hostname, devtype), line 49: the resolved settings a task may get
SettingsChoices ==
    { [ntp_servers |-> <<1>>],
      [mgmt_ip |-> 99, ntp_servers |-> <<1>>],
      [interfaces |-> <<IntfDownlink, IntfPort, IntfCustom>>],
      [interfaces |-> <<IntfCustom>>] }

\* lines 105-113: the Interface rows of a device
InterfaceRows ==
    << [name |-> "Ethernet1", configtype |-> "ACCESS_UPLINK"],
       [name |-> "Ethernet2", configtype |-> "ACCESS_AUTO"],
       [name |-> "Ethernet3", configtype |-> "ACCESS_UNTAGGED"] >>

RECURSIVE IfnamesOf(_, _)
\* lines 106-113: the names of the rows of one configtype, in query order
IfnamesOf(intfs, configtype) ==
    IF intfs = <<>> THEN <<>>
    ELSE (IF Head(intfs).configtype = configtype
          THEN <<[ifname |-> Head(intfs).name]>> ELSE <<>>)
         \o IfnamesOf(Tail(intfs), configtype)

\* a management domain as (vlan, prefix length of its ipv4_gw); the domains
\* find_mgmtdomain and get_all_mgmtdomains may answer with
Mgmtdomains == {<<600, 24>>}

RECURSIVE DistInterfaces(_, _, _)
\* lines 76-96: the loop over settings['interfaces'], with the local ifindexnum
\* as the iteration before left it; the loop ends in an error when an entry
\* has no 'ifname' key (KeyError, line 79) or reads ifindexnum unbound
DistInterfaces(intfs, ifindexnum, acc) ==
    IF intfs = <<>> THEN [ok |-> TRUE, interfaces |-> acc]
    ELSE LET intf == Head(intfs) IN
         IF "ifname" \notin DOMAIN intf THEN [ok |-> FALSE, interfaces |-> acc]
         ELSE LET num == IF InterfaceIndexNum(intf.ifname) = None
                         THEN ifindexnum      \* except ValueError: pass
                         ELSE 0               \* else: ifindexnum = 0
              IN IF intf.ifclass \in {"downlink", "custom"} /\ num = Unbound
                 THEN [ok |-> FALSE, interfaces |-> acc]
                 ELSE DistInterfaces(Tail(intfs), num,
                        IF intf.ifclass = "downlink"
                        THEN Append(acc, [ifname |-> intf.name, ifclass |-> intf.ifclass,
                                          ifindexnum |-> num])
                        ELSE IF intf.ifclass = "custom"
                        THEN Append(acc, [ifname |-> intf.name, ifclass |-> intf.ifclass,
                                          config |-> intf.config, ifindexnum |-> num])
                        ELSE acc)

\* lines 63-68
AccessDeviceVariables(mgmt_ip, mgmtdomain) ==
    [mgmt_vlan_id |-> mgmtdomain[1],
     mgmt_gw |-> <<"gw", mgmtdomain[2]>>,
     mgmt_ipif |-> <<mgmt_ip, mgmtdomain[2]>>,
     mgmt_prefixlen |-> mgmtdomain[2]]

\* lines 70-103
DistDeviceVariables(mgmt_ip, interfaces, mgmtdomains) ==
    [mgmt_ipif |-> <<mgmt_ip, 32>>,
     mgmt_prefixlen |-> 32,
     interfaces |-> interfaces,
     mgmtdomains |-> mgmtdomains]

\* lines 114-118
CommonDeviceVariables(mgmt_ip) ==
    [mgmt_ip |-> mgmt_ip,
     uplinks |-> IfnamesOf(InterfaceRows, "ACCESS_UPLINK"),
     access_auto |-> IfnamesOf(InterfaceRows, "ACCESS_AUTO")]

\* lines 51, 69, 119-122: the variables derived for a device of a role; a role
\* that is neither ACCESS nor DIST gets the common variables only
DeviceVariables(devtype, mgmt_ip, mgmtdomain, interfaces, mgmtdomains) ==
    IF devtype = "ACCESS"
    THEN Merge(AccessDeviceVariables(mgmt_ip, mgmtdomain), CommonDeviceVariables(mgmt_ip))
    ELSE IF devtype = "DIST"
    THEN Merge(DistDeviceVariables(mgmt_ip, interfaces, mgmtdomains),
               CommonDeviceVariables(mgmt_ip))
    ELSE CommonDeviceVariables(mgmt_ip)

\* line 126
TemplateVars(device_variables, settings) == Merge(device_variables, settings)

\* lines 137-144, text.template_file: the text the entrypoint template of a
\* role renders from the variables, a function of both
TemplateFile(devtype, template_vars) == <<devtype, template_vars>>

NoConfig == <<>>

\* mutant: a device without uplink neighbors is let through
NoUplinkNeighborsNever(neighbor_hostnames) == FALSE

\* line 53
NoUplinkNeighbors(neighbor_hostnames) == neighbor_hostnames = {}

\* line 57
NoMgmtdomain(mgmtdomain) == mgmtdomain = <<>>

\* mutant: the rendered configuration always goes to napalm_configure
RunsConfigureAlways(generate_only) == TRUE

\* line 152
RunsConfigure(generate_only) == ~generate_only

IdleTask ==
    [stage |-> "idle", error |-> "", mgmt_ip |-> None, devtype |-> "",
     settings |-> EmptyDict,
     neighbor_hostnames |-> {}, mgmtdomain |-> <<>>,
     device_variables |-> EmptyDict, template_vars |-> EmptyDict,
     config |-> NoConfig, configured |-> FALSE]

IdleNr ==
    [state |-> "idle", entry |-> "", hosts |-> {}, dry_run |-> TRUE,
     generate_only |-> FALSE, returns |-> <<>>]

NoResponse == [code |-> 0]

\* ------------------------------------------------------------------ Init
Init ==
    /\ synchronized = [d \in Devices |-> FALSE]
    /\ config_hash = [d \in Devices |-> None]
    /\ running_config = [d \in Devices |-> FactoryConfig]
    /\ managed \in {[d \in Devices |-> TRUE], [d \in Devices |-> d # NumDevices]}
    /\ device_type = [d \in Devices |-> IF d % 2 = 1 THEN "ACCESS" ELSE "DIST"]
    /\ run = [r \in Runs |-> IdleRun]
    /\ events = 0
    /\ recorded = [d \in Devices |-> None]
    /\ nr = IdleNr
    /\ task = [d \in Devices |-> IdleTask]
    /\ response = NoResponse
    /\ linknets = <<>>

\* --------------------------------------------------------------- actions
\* lines 189-218: a job worker enters sync_devices and selects its devices
Start(r, hostname, devtype, dry_run, force) ==
    /\ r = FreeWorker
    /\ events < MaxEvents
    /\ events' = events + 1
    /\ run' = [run EXCEPT ![r] =
                 [IdleRun EXCEPT !.pc = "gate",
                                 !.both_selectors = (hostname # None /\ devtype # NoType),
                                 !.dry_run = dry_run,
                                 !.force = force,
                                 !.device_list = SortedSeq(SelectDevices(hostname, devtype))]]
    /\ UNCHANGED <<devstate, recorded, taskstate>>

\* lines 219-228: one iteration of the drift loop
GateStep(r) ==
    LET me == run[r] IN
    /\ me.pc = "gate"
    /\ me.i <= Len(me.device_list)
    /\ LET device == me.device_list[me.i]
           stored_config_hash == config_hash[device]
       IN IF NoStoredHash(stored_config_hash)
          THEN run' = [run EXCEPT ![r].i = me.i + 1,
                                  ![r].examined = me.examined \cup {device}]
          ELSE \E current_config_hash \in {None, ConfigHash(running_config[device])} :
                 IF HashReadFailed(current_config_hash)
                 THEN run' = [run EXCEPT ![r].pc = "gate_hash_error",
                                         ![r].unread = me.unread \cup {device}]
                 ELSE run' = [run EXCEPT
                        ![r].i = me.i + 1,
                        ![r].unread = IF current_config_hash = None
                                      THEN me.unread \cup {device} ELSE me.unread,
                        ![r].examined = me.examined \cup {device},
                        ![r].alterned =
                            IF HasDrifted(stored_config_hash, current_config_hash)
                            THEN me.alterned \cup {device} ELSE me.alterned,
                        ![r].drifted =
                            IF config_hash[device] # ConfigHash(running_config[device])
                            THEN me.drifted \cup {device} ELSE me.drifted]
    /\ UNCHANGED <<devstate, events, recorded, taskstate>>

\* lines 229-232: the decision of the drift gate, after the loop
GateDecide(r) ==
    LET me == run[r] IN
    /\ me.pc = "gate"
    /\ GateLoopDone(me.i, me.device_list)
    /\ run' = [run EXCEPT ![r].pc =
                 IF GateAborts(me.alterned, me.force) THEN "drift_abort" ELSE "run"]
    /\ UNCHANGED <<devstate, events, recorded, taskstate>>

\* line 233, per host: nornir runs push_sync_device for one selected host; an
\* exception in the task is caught by nornir and the host is recorded as failed.
\* A committed push (lines 155-160, dry_run=False, replace=True) replaces the
\* running configuration by the rendered one.
PushDevice(r, device, ok) ==
    LET me == run[r] IN
    /\ me.pc = "run"
    /\ device \in SeqSet(me.device_list) \ me.attempted
    /\ IF ~ok
       THEN /\ run' = [run EXCEPT ![r].attempted = me.attempted \cup {device},
                                  ![r].failed_hosts = me.failed_hosts \cup {device}]
            /\ UNCHANGED <<running_config, recorded>>
       ELSE /\ run' = [run EXCEPT ![r].attempted = me.attempted \cup {device}]
            /\ IF me.dry_run
               THEN UNCHANGED <<running_config, recorded>>
               ELSE /\ running_config' = [running_config EXCEPT ![device] = Rendered(device)]
                    /\ recorded' = [recorded EXCEPT ![device] = None]
    /\ UNCHANGED <<synchronized, config_hash, managed, device_type, events, taskstate>>

\* lines 235-237: nr_filtered.run itself raises; the handler then reads nrresult,
\* which was never bound, and the run ends with that error
NornirRunRaises(r) ==
    LET me == run[r] IN
    /\ me.pc = "run"
    /\ me.attempted = {}
    /\ run' = [run EXCEPT ![r].pc = "run_error"]
    /\ UNCHANGED <<devstate, events, recorded, taskstate>>

\* lines 233-241: nr_filtered.run returns once every selected host was attempted
PipelineDone(r) ==
    LET me == run[r] IN
    /\ me.pc = "run"
    /\ me.attempted = SeqSet(me.device_list)
    /\ run' = [run EXCEPT ![r].pc = AfterPipeline(me.dry_run), ![r].i = 1]
    /\ UNCHANGED <<devstate, events, recorded, taskstate>>

\* lines 242-248: one iteration of the loop that stores the new hashes
HashStep(r) ==
    LET me == run[r] IN
    /\ me.pc = "hash"
    /\ me.i <= Len(me.device_list)
    /\ LET key == me.device_list[me.i] IN
       IF key \notin PostCommitTargets(me.device_list, me.failed_hosts)
       THEN /\ run' = [run EXCEPT ![r].i = me.i + 1]
            /\ UNCHANGED <<config_hash, recorded>>
       ELSE \E new_config_hash \in {None, ConfigHash(running_config[key])} :
              IF new_config_hash = None
              THEN /\ run' = [run EXCEPT ![r].pc = "post_hash_error"]
                   /\ UNCHANGED <<config_hash, recorded>>
              ELSE /\ config_hash' = [config_hash EXCEPT ![key] = new_config_hash]
                   /\ recorded' = [recorded EXCEPT ![key] = new_config_hash]
                   /\ run' = [run EXCEPT ![r].i = me.i + 1,
                                         ![r].wrote_hash = me.wrote_hash \cup {key}]
    /\ UNCHANGED <<synchronized, running_config, managed, device_type, events, taskstate>>

\* lines 250-261: one database session marks the pushed devices synchronized
\* and commits; the run then returns its result
MarkSynchronized(r) ==
    LET me == run[r]
        targets == PostCommitTargets(me.device_list, me.failed_hosts)
    IN
    /\ me.pc = "hash"
    /\ me.i > Len(me.device_list)
    /\ synchronized' = [d \in Devices |-> IF d \in targets THEN TRUE ELSE synchronized[d]]
    /\ run' = [run EXCEPT ![r].pc = "done", ![r].wrote_sync = targets]
    /\ UNCHANGED <<config_hash, running_config, managed, device_type, events, recorded, taskstate>>

\* line 188, job_wrapper: the call has returned or raised, the job is finished
\* and its worker is free again
Return(r) ==
    /\ run[r].pc \in Terminal
    /\ run' = [run EXCEPT ![r] = IdleRun]
    /\ UNCHANGED <<devstate, events, recorded, taskstate>>

\* the running configuration of a device is changed outside of CNaaS
AlterOutside(device, config) ==
    /\ events < MaxEvents
    /\ config # running_config[device]
    /\ running_config' = [running_config EXCEPT ![device] = config]
    /\ events' = events + 1
    /\ UNCHANGED <<synchronized, config_hash, managed, device_type, run, recorded, taskstate>>

\* ------------------------------------------- push_sync_device, by stages
\* the roles of the devices of an inventory that holds every role
RoleNo(k) == IF k = 0 THEN "ACCESS" ELSE IF k = 1 THEN "DIST" ELSE "CORE"

InitTask ==
    /\ synchronized = [d \in Devices |-> FALSE]
    /\ config_hash = [d \in Devices |-> None]
    /\ running_config = [d \in Devices |-> FactoryConfig]
    /\ managed = [d \in Devices |-> d # NumDevices]
    /\ \E k \in 0..2 : device_type = [d \in Devices |-> RoleNo((d + k) % 3)]
    /\ run = [r \in Runs |-> IdleRun]
    /\ events = 0
    /\ recorded = [d \in Devices |-> None]
    /\ nr = IdleNr
    /\ task = [d \in Devices |-> IdleTask]
    /\ response = NoResponse
    /\ linknets = <<>>

Finished(t) == t.stage \in {"done", "failed"}

FailedHosts == {h \in nr.hosts : task[h].stage = "failed"}

\* an exception ends the task: nornir keeps the exception of the host, whose
\* message tells what the task had found, and the other locals are gone
Fail(t, error) ==
    [IdleTask EXCEPT !.stage = "failed", !.error = error, !.devtype = t.devtype,
                     !.neighbor_hostnames = t.neighbor_hostnames,
                     !.mgmtdomain = t.mgmtdomain, !.configured = t.configured]

\* line 233: sync_devices hands the selected hosts to nornir, which runs
\* push_sync_device for each of them
NrRun(hosts, dry_run) ==
    /\ nr.state = "idle"
    /\ nr' = [IdleNr EXCEPT !.state = "running", !.entry = "sync_devices",
                            !.hosts = hosts, !.dry_run = dry_run]
    /\ UNCHANGED <<devstate, run, events, recorded, task, response, linknets>>

\* lines 173-178: generate_only selects the managed host of that name and runs
\* push_sync_device with generate_only=True for it
GenerateOnly(hostname) ==
    /\ nr.state = "idle"
    /\ LET hosts == {d \in Devices : d = hostname /\ managed[d]} IN
       IF Cardinality(hosts) # 1
       THEN nr' = [IdleNr EXCEPT !.state = "raised", !.entry = "generate_only"]
       ELSE nr' = [IdleNr EXCEPT !.state = "running", !.entry = "generate_only",
                                 !.hosts = hosts, !.generate_only = TRUE]
    /\ UNCHANGED <<devstate, run, events, recorded, task, response, linknets>>

\* lines 38-49: the task reads its device and the settings resolved for it
TaskLoad(h, mgmt_ip, platform_is_str, settings) ==
    /\ nr.state = "running"
    /\ h \in nr.hosts
    /\ task[h].stage = "idle"
    /\ task' = [task EXCEPT ![h] =
                 IF mgmt_ip = None THEN Fail(@, "Could not find management IP")
                 ELSE IF ~platform_is_str
                 THEN Fail(@, "Unknown platform")
                 ELSE [@ EXCEPT !.stage = "loaded", !.mgmt_ip = mgmt_ip,
                                !.devtype = device_type[h], !.settings = settings]]
    /\ UNCHANGED <<devstate, run, events, recorded, nr, response, linknets>>

\* lines 51-126: the variables of the device's role, the common variables and
\* the merge with the settings
TaskDerive(h, neighbor_hostnames, mgmtdomain, mgmtdomains) ==
    LET t == task[h] IN
    /\ nr.state = "running"
    /\ t.stage = "loaded"
    /\ IF t.devtype = "ACCESS" /\ NoUplinkNeighbors(neighbor_hostnames)
       THEN task' = [task EXCEPT ![h] =
                       Fail([t EXCEPT !.neighbor_hostnames = neighbor_hostnames],
                            "Could not find any uplink neighbors")]
       ELSE IF t.devtype = "ACCESS" /\ NoMgmtdomain(mgmtdomain)
       THEN task' = [task EXCEPT ![h] =
                       Fail([t EXCEPT !.neighbor_hostnames = neighbor_hostnames,
                                      !.mgmtdomain = mgmtdomain],
                            "Could not find appropriate management domain")]
       ELSE LET looped ==
                    IF t.devtype = "DIST" /\ "interfaces" \in DOMAIN t.settings
                                          /\ t.settings.interfaces # <<>>
                    THEN DistInterfaces(t.settings.interfaces, Unbound, <<>>)
                    ELSE [ok |-> TRUE, interfaces |-> <<>>]
                device_variables ==
                    DeviceVariables(t.devtype, t.mgmt_ip, mgmtdomain,
                                    looped.interfaces, mgmtdomains)
            IN IF ~looped.ok
               THEN task' = [task EXCEPT ![h] = Fail(t, "interfaces")]
               ELSE task' = [task EXCEPT ![h] =
                       [t EXCEPT !.stage = "merged",
                                 !.neighbor_hostnames =
                                     IF t.devtype = "ACCESS" THEN neighbor_hostnames ELSE @,
                                 !.mgmtdomain = IF t.devtype = "ACCESS" THEN mgmtdomain ELSE @,
                                 !.device_variables = device_variables,
                                 !.template_vars = TemplateVars(device_variables, t.settings)]]
    /\ UNCHANGED <<devstate, run, events, recorded, nr, response, linknets>>

\* lines 128-150: the template of the device's platform and role is looked up
\* and rendered with the merged variables
TaskRender(h, outcome) ==
    LET t == task[h] IN
    /\ nr.state = "running"
    /\ t.stage = "merged"
    /\ task' = [task EXCEPT ![h] =
                 IF outcome = "ok"
                 THEN [t EXCEPT !.stage = "rendered",
                                !.config = TemplateFile(t.devtype, t.template_vars)]
                 ELSE Fail(t, outcome)]
    /\ UNCHANGED <<devstate, run, events, recorded, nr, response, linknets>>

\* lines 152-160: unless only generating, the rendered configuration goes to
\* napalm_configure, which compares it (dry run) or replaces the running one
TaskConfigure(h, ok) ==
    LET t == task[h] IN
    /\ nr.state = "running"
    /\ t.stage = "rendered"
    /\ IF RunsConfigure(nr.generate_only)
       THEN /\ task' = [task EXCEPT ![h] =
                         IF ok THEN [t EXCEPT !.stage = "done", !.configured = TRUE]
                         ELSE Fail([t EXCEPT !.configured = TRUE], "napalm_configure")]
            /\ running_config' = IF ok /\ ~nr.dry_run
                                 THEN [running_config EXCEPT ![h] = Rendered(h)]
                                 ELSE running_config
       ELSE /\ ok
            /\ task' = [task EXCEPT ![h].stage = "done"]
            /\ UNCHANGED running_config
    /\ UNCHANGED <<synchronized, config_hash, managed, device_type,
                   run, events, recorded, nr, response, linknets>>

\* lines 183-185, 235-237: nr_filtered.run itself raises; both handlers then
\* read nrresult, which was never bound
NrRunRaises ==
    /\ nr.state = "running"
    /\ \A h \in nr.hosts : task[h].stage = "idle"
    /\ nr' = [nr EXCEPT !.state = "raised"]
    /\ UNCHANGED <<devstate, run, events, recorded, task, response, linknets>>

\* lines 178-185, 233-239: nornir has run the task for every host.  sync_devices
\* goes on with the failed hosts; generate_only returns the text and the
\* variables of its host, and after a failed task its handler raises when it
\* reads the result of the rendering or the host's template_vars
NrRunDone ==
    /\ nr.state = "running"
    /\ \A h \in nr.hosts : Finished(task[h])
    /\ nr' = IF nr.entry = "generate_only"
             THEN IF FailedHosts # {}
                  THEN [nr EXCEPT !.state = "raised"]
                  ELSE LET hostname == CHOOSE d \in nr.hosts : TRUE IN
                       [nr EXCEPT !.state = "returned",
                                  !.returns = <<task[hostname].config,
                                                task[hostname].template_vars>>]
             ELSE [nr EXCEPT !.state = "returned"]
    /\ UNCHANGED <<devstate, run, events, recorded, task, response, linknets>>

NextTask ==
    \/ \E hosts \in SUBSET Devices, dry_run \in BOOLEAN : NrRun(hosts, dry_run)
    \/ \E hostname \in Devices : GenerateOnly(hostname)
    \/ \E h \in Devices : \E mgmt_ip \in {None, MgmtIp(h)}, platform_is_str \in BOOLEAN,
          settings \in SettingsChoices : TaskLoad(h, mgmt_ip, platform_is_str, settings)
    \/ \E h \in Devices : \E neighbor_hostnames \in SUBSET (Devices \ {h}),
          mgmtdomain \in Mgmtdomains \cup {<<>>}, mgmtdomains \in {<<>>} :
          TaskDerive(h, neighbor_hostnames, mgmtdomain, mgmtdomains)
    \/ \E h \in Devices, outcome \in {"ok", "mapfile not found", "no entrypoint",
                                       "template_file"} : TaskRender(h, outcome)
    \/ \E h \in Devices, ok \in BOOLEAN : TaskConfigure(h, ok)
    \/ NrRunRaises
    \/ NrRunDone

SpecTask == InitTask /\ [][NextTask]_vars

\* ------------------------------------------------ the database and the API
\* how many rows the Linknet table may hold
MaxLinknets == 2

\* DeviceType: the names of its members
DeviceTypeNames == {"UNKNOWN", "ACCESS", "DIST", "CORE"}

\* str.upper, on the device_type arguments a request may carry
Upper(name) ==
    IF name = "dist" THEN "DIST" ELSE IF name = "access" THEN "ACCESS" ELSE name

\* a hostname that Device.valid_hostname rejects, and a valid one of no device
InvalidHostname == -1
UnknownHostname == NumDevices + 1

InitDb == InitTask

\* settings.py lines 11-38, SettingsApi.get: hostname_arg and device_type_arg
\* are the request's arguments (None, NoType: not in args), settings_ok tells
\* whether get_settings answers or raises
SettingsGet(hostname_arg, device_type_arg, settings_ok) ==
    LET answer(code, error, hostname, devtype) ==
            [code |-> code, error |-> error,
             args |-> <<hostname_arg, device_type_arg>>,
             settings_for |-> <<hostname, devtype>>]
        stored_type == IF hostname_arg \in Devices THEN device_type[hostname_arg] ELSE NoType
        new_type == IF device_type_arg # NoType THEN Upper(device_type_arg) ELSE stored_type
    IN
    /\ response' =
         IF hostname_arg # None /\ hostname_arg = InvalidHostname
         THEN answer(400, "Invalid hostname specified", None, NoType)
         ELSE IF hostname_arg # None /\ hostname_arg \notin Devices
         THEN answer(400, "Hostname not found in database", hostname_arg, NoType)
         ELSE IF device_type_arg # NoType /\ Upper(device_type_arg) \notin DeviceTypeNames
         THEN answer(400, "Invalid device type specified", hostname_arg, stored_type)
         ELSE IF ~settings_ok
         THEN answer(400, "Error getting settings", hostname_arg, new_type)
         ELSE answer(200, "", hostname_arg, new_type)
    /\ UNCHANGED <<devstate, run, events, recorded, nr, task, linknets>>

\* test_device.py lines 46-49, 65-68: a Linknet row between two devices is made
AddLinknet(device_a, device_b) ==
    /\ Len(linknets) < MaxLinknets
    /\ device_a # device_b
    /\ linknets' = Append(linknets, [device_a |-> device_a, device_b |-> device_b])
    /\ UNCHANGED <<devstate, run, events, recorded, nr, task, response>>

\* mutant: a row is found only from the device stored as device_a
HasEndOneWay(row, d) == row.device_a = d

\* a Linknet row has the device at one of its two ends
HasEnd(row, d) == row.device_a = d \/ row.device_b = d

RECURSIVE LinknetsOf(_, _)
\* the rows of a table that have the device at an end, in table order
LinknetsOf(rows, d) ==
    IF rows = <<>> THEN <<>>
    ELSE (IF HasEnd(Head(rows), d) THEN <<Head(rows)>> ELSE <<>>)
         \o LinknetsOf(Tail(rows), d)

\* Device.get_linknets
GetLinknets(d) == LinknetsOf(linknets, d)

\* the device at the other end of a row
PeerOf(row, d) == IF row.device_a = d THEN row.device_b ELSE row.device_a

\* Device.get_neighbors: the devices at the other end of the device's linknets
GetNeighbors(d) == {PeerOf(row, d) : row \in SeqSet(GetLinknets(d))}

NextDb ==
    \/ \E hostname_arg \in {None, InvalidHostname, UnknownHostname} \cup Devices,
          device_type_arg \in {NoType, "dist", "ACCESS", "CORE", "router"},
          settings_ok \in BOOLEAN :
          SettingsGet(hostname_arg, device_type_arg, settings_ok)
    \/ \E device_a \in Devices, device_b \in Devices : AddLinknet(device_a, device_b)

SpecDb == InitDb /\ [][NextDb]_vars

\* What the caller of sync_devices gets: the NornirJobResult of line 261, with
\* the hosts nornir ran and those it recorded as failed, or the exception
\* raised at line 225, 230, 237 or 247 with the devices its message names.
\* No outcome of the code lists a device as skipped.
RunResult(me) ==
    IF me.pc = "done"
    THEN [kind |-> "result",
          succeeded |-> SeqSet(me.device_list) \ me.failed_hosts,
          failed |-> me.failed_hosts,
          skipped |-> {},
          named |-> {}]
    ELSE IF me.pc = "drift_abort"
    THEN [kind |-> "exception", succeeded |-> {}, failed |-> {}, skipped |-> {},
          named |-> me.alterned]
    ELSE [kind |-> "exception", succeeded |-> {}, failed |-> {}, skipped |-> {},
          named |-> {}]

\* ---------------------------------------------------------------- claims
PushedOk(me) == me.attempted \ me.failed_hosts

\* the flag of the run that takes the step: a starting run's is its argument
DryRunOf(r) == IF run[r].pc = "idle" THEN run'[r].dry_run ELSE run[r].dry_run

\* C1: a run with force=false whose drift loop found a selected device with a
\* stored hash that differs from its running configuration's hash never gets
\* past the gate: it ends aborted, has pushed to no device and has written no
\* device's synchronized flag or stored hash.
C1_DriftAbortTouchesNothing ==
    \A r \in Runs :
        LET me == run[r] IN
        (me.drifted # {} /\ me.force = FALSE)
            => /\ me.pc \in {"gate", "drift_abort", "gate_hash_error"}
               /\ (GateLoopDone(me.i, me.device_list) /\ me.pc # "gate"
                     => me.pc = "drift_abort")
               /\ me.attempted = {}
               /\ me.wrote_hash = {}
               /\ me.wrote_sync = {}

C1_Witness ==
    \E r \in Runs :
        /\ run[r].pc = "drift_abort"
        /\ run[r].force = FALSE
        /\ run[r].drifted # {}
        /\ Len(run[r].device_list) >= 2

\* C2: a step changes a device's synchronized flag or stored hash only if it
\* is a step of a non-dry-run run whose push of that device succeeded, and it
\* changes the flag only to true; so a device whose pipeline failed keeps both.
C2_UpdateOnlyAfterSuccessfulPush ==
    [][\A d \in Devices :
          (synchronized'[d] # synchronized[d] \/ config_hash'[d] # config_hash[d])
              => /\ \E r \in Runs : /\ run'[r] # run[r]
                                    /\ run[r].dry_run = FALSE
                                    /\ d \in PushedOk(run[r])
                 /\ (synchronized'[d] # synchronized[d] => synchronized'[d] = TRUE)]_vars

C2_Witness ==
    \E r \in Runs :
        /\ run[r].pc = "done"
        /\ run[r].dry_run = FALSE
        /\ run[r].failed_hosts # {}
        /\ run[r].wrote_sync # {}
        /\ run[r].wrote_hash = run[r].wrote_sync
        /\ \A d \in run[r].failed_hosts : synchronized[d] = FALSE /\ config_hash[d] = None

\* the device whose hash could not be read after the push
PostCommitFailed(me) ==
    IF me.pc = "post_hash_error" THEN {me.device_list[me.i]} ELSE {}

\* C3 (as claimed): when a non-dry-run run that passed the drift gate ends,
\* with failures in the pipeline or in the post-commit update of some devices,
\* every selected device was attempted and every other device whose push
\* succeeded is synchronized.
C3_FailureNeverBlocksSiblings ==
    \A r \in Runs :
        LET me == run[r] IN
        (me.pc \in {"done", "post_hash_error"} /\ me.dry_run = FALSE)
            => /\ me.attempted = SeqSet(me.device_list)
               /\ \A d \in PushedOk(me) \ PostCommitFailed(me) : synchronized[d] = TRUE

\* C4: no step of a dry-run run changes any device's synchronized flag or
\* stored hash.
C4_DryRunNeverMutates ==
    [][\A r \in Runs :
          (run'[r] # run[r] /\ DryRunOf(r))
              => (synchronized' = synchronized /\ config_hash' = config_hash)]_vars

C4_Witness ==
    \E r \in Runs :
        /\ run[r].pc = "done"
        /\ run[r].dry_run = TRUE
        /\ run[r].failed_hosts # {}
        /\ PushedOk(run[r]) # {}
        /\ \A d \in PushedOk(run[r]) : synchronized[d] = FALSE

\* C5 (as claimed): a non-dry-run run with force=true that found drift goes on
\* to the pipeline, and when it ends every device whose push succeeded is
\* synchronized and stores the hash of the configuration pushed to it.
C5_ForcedRunUpdatesPushed ==
    \A r \in Runs :
        LET me == run[r] IN
        (me.force = TRUE /\ me.dry_run = FALSE /\ me.drifted # {})
            => /\ me.pc # "drift_abort"
               /\ me.pc \in {"done", "post_hash_error"}
                     => \A d \in PushedOk(me) :
                            /\ synchronized[d] = TRUE
                            /\ config_hash[d] = ConfigHash(Rendered(d))

\* C6 (as claimed): whenever no run is in progress, a device that is marked
\* synchronized stores the hash that was recorded at its latest successful
\* non-dry-run push.
C6_SynchronizedMatchesLatestPush ==
    (\A r \in Runs : ~Active(r))
        => \A d \in Devices : synchronized[d] = TRUE => config_hash[d] = recorded[d]

\* C7: a run starts the pipeline of a device only after its drift loop has
\* examined every selected device and the gate has decided to continue, and
\* it examines no device once a pipeline has started.
C7_GateBeforePipeline ==
    [][\A r \in Runs :
          /\ (run[r].attempted # run'[r].attempted /\ run[r].attempted \subseteq run'[r].attempted)
                => /\ run[r].pc = "run"
                   /\ run[r].examined = SeqSet(run[r].device_list)
          /\ (run[r].examined # run'[r].examined /\ run[r].examined \subseteq run'[r].examined)
                => /\ run[r].pc = "gate"
                   /\ run[r].attempted = {}]_vars

C7_Witness ==
    \E r \in Runs :
        /\ run[r].pc = "run"
        /\ Len(run[r].device_list) >= 2
        /\ run[r].attempted # {}
        /\ run[r].attempted # SeqSet(run[r].device_list)
        /\ run[r].alterned # {}

\* C8 (as claimed): no two runs that selected a common device are in progress
\* at the same time.
C8_OneRunPerDevice ==
    \A r, q \in Runs :
        (r # q /\ Active(r) /\ Active(q)
            /\ run[r].pc \notin Terminal /\ run[q].pc \notin Terminal)
            => SeqSet(run[r].device_list) \cap SeqSet(run[q].device_list) = {}

\* C9 (as claimed): when the hash of a device cannot be read after its
\* committed push, the run reports that device as failed, has not marked it
\* synchronized and has not changed its stored hash.
C9_PostCommitHashFailureReported ==
    \A r \in Runs :
        LET me == run[r] IN
        me.pc = "post_hash_error"
            => \A d \in PostCommitFailed(me) :
                  /\ d \in RunResult(me).failed
                  /\ d \notin me.wrote_sync
                  /\ d \notin me.wrote_hash

C11_TopologyFailureIsPerDevice ==
    \A h \in Devices :
        LET t == task[h] IN
        (t.devtype = "ACCESS" /\ t.stage \notin {"idle", "loaded"}
            /\ (t.neighbor_hostnames = {} \/ t.mgmtdomain = <<>>))
            => /\ t.stage = "failed"
               /\ t.config = NoConfig
               /\ ~t.configured
               /\ running_config[h] = FactoryConfig
               /\ nr.entry = "sync_devices"
                     => /\ nr.state \in {"running", "returned"}
                        /\ nr.state = "returned"
                              => \A g \in nr.hosts : Finished(task[g])

C11_Witness ==
    /\ nr.entry = "sync_devices"
    /\ nr.state = "returned"
    /\ nr.dry_run = FALSE
    /\ \E h \in nr.hosts :
          /\ task[h].devtype = "ACCESS"
          /\ task[h].neighbor_hostnames = {}
          /\ task[h].stage = "failed"
    /\ \E g \in nr.hosts :
          /\ task[g].stage = "done"
          /\ task[g].configured
          /\ running_config[g] = Rendered(g)

\* C12 (as claimed): a call of sync_devices that supplies both a hostname and a
\* device type is rejected: it examines no device, starts no pipeline and ends
\* with an error.
C12_ConflictingSelectorsRejected ==
    \A r \in Runs :
        LET me == run[r] IN
        me.both_selectors
            => /\ me.examined = {}
               /\ me.attempted = {}
               /\ me.pc \notin {"run", "hash", "done"}

\* C13 (as claimed): in the variables a task hands to the renderer, every key
\* that both the derived device variables and the settings have carries the
\* derived value.
C13_DerivedVariablesTakePrecedence ==
    \A h \in Devices :
        LET t == task[h] IN
        t.stage \in {"merged", "rendered", "done"}
            => \A k \in (DOMAIN t.device_variables) \cap (DOMAIN t.settings) :
                  t.template_vars[k] = t.device_variables[k]

\* C14: the drift loop adds a device to the altered devices only if the device
\* has a stored hash, and a run that the drift gate aborts was aborted for
\* devices that all have one; a selected device without a stored hash is
\* examined without its running configuration being looked at.
C14_NullStoredNeverDrifted ==
    [][\A r \in Runs :
          /\ \A d \in run'[r].alterned \ run[r].alterned : config_hash[d] # None
          /\ (run'[r].pc = "drift_abort" /\ run[r].pc = "gate")
                => /\ run[r].alterned # {}
                   /\ \A d \in run[r].alterned : config_hash[d] # None]_vars

C14_Witness ==
    \E r \in Runs :
        /\ run[r].pc = "run"
        /\ run[r].force = FALSE
        /\ \E d \in run[r].examined :
              /\ config_hash[d] = None
              /\ running_config[d] # FactoryConfig

\* C15 (as claimed): when the drift loop examines a device, it reports it
\* altered if and only if the stored hash differs from the hash of the running
\* configuration, and the examination changes no device state.
C15_DriftedIffHashesDiffer ==
    [][\A r \in Runs : \A d \in run'[r].examined \ run[r].examined :
          /\ (d \in run'[r].alterned)
                <=> (config_hash[d] # ConfigHash(running_config[d]))
          /\ devstate' = devstate]_vars

\* C15 (amended): when the drift loop examines a device, it reports it altered
\* if and only if the device has a stored hash and that hash differs from the
\* hash of the running configuration; the examination changes no device state,
\* so the answer depends on the stored hash and the running configuration only
\* and a second examination with both unchanged gives the same answer.
C15_DriftedIffStoredAndDiffers ==
    [][\A r \in Runs : \A d \in run'[r].examined \ run[r].examined :
          /\ (d \in run'[r].alterned)
                <=> (config_hash[d] # None
                     /\ config_hash[d] # ConfigHash(running_config[d]))
          /\ devstate' = devstate]_vars

C15_Witness ==
    \E r \in Runs :
        /\ run[r].pc = "gate"
        /\ \E d \in run[r].examined :
              d \in run[r].alterned /\ config_hash[d] # ConfigHash(running_config[d])
        /\ \E d \in run[r].examined :
              d \notin run[r].alterned /\ config_hash[d] = None

\* C16 (as claimed): a settings request that names a device and an explicit
\* role other than the role stored for that device is answered with a
\* conflict error, and no settings are returned.
C16_RoleConflictRejected ==
    (/\ response.code # 0
     /\ response.args[1] \in Devices
     /\ response.args[2] # NoType
     /\ Upper(response.args[2]) \in DeviceTypeNames
     /\ Upper(response.args[2]) # device_type[response.args[1]])
        => /\ response.code # 200
           /\ response.error \notin {"", "Error getting settings"}

\* C17 (as claimed): the task of a device whose role is neither ACCESS nor
\* DIST fails once it comes to deriving the variables of the role: it merges
\* no variables, renders no configuration and never calls napalm_configure.
C17_UnsupportedRoleFails ==
    \A h \in Devices :
        LET t == task[h] IN
        (t.devtype \notin {"", "ACCESS", "DIST"} /\ t.stage # "loaded")
            => /\ t.stage = "failed"
               /\ t.config = NoConfig
               /\ ~t.configured

\* C18: while generate_only runs and after it, napalm_configure was called for
\* no host, every device runs the configuration it ran before and no device's
\* synchronized flag or stored hash has changed; when generate_only returns,
\* it had selected exactly one host, a managed one, and returns the text
\* rendered for it together with the merged template variables of its task.
C18_GenerateOnlyPushesNothing ==
    nr.entry = "generate_only"
        => /\ \A h \in Devices :
                 /\ ~task[h].configured
                 /\ running_config[h] = FactoryConfig
                 /\ synchronized[h] = FALSE
                 /\ config_hash[h] = None
           /\ nr.state = "returned"
                 => /\ Cardinality(nr.hosts) = 1
                    /\ \A h \in nr.hosts :
                          /\ managed[h]
                          /\ task[h].stage = "done"
                          /\ task[h].config # NoConfig
                          /\ nr.returns[1] = task[h].config
                          /\ nr.returns[2] = task[h].template_vars
                          /\ DOMAIN task[h].device_variables \subseteq DOMAIN nr.returns[2]
                          /\ DOMAIN task[h].settings \subseteq DOMAIN nr.returns[2]

C18_Witness ==
    /\ nr.entry = "generate_only"
    /\ nr.state = "returned"
    /\ nr.returns[1] # NoConfig
    /\ \E h \in nr.hosts : task[h].devtype = "DIST" /\ ~task[h].configured

\* C19: for every row of the Linknet table, each of its two devices is among
\* the neighbors of the other and the row is among the linknets of both,
\* whichever of the two is stored as device_a.
C19_NeighborsSymmetric ==
    \A k \in 1..Len(linknets) :
        LET row == linknets[k] IN
        /\ row.device_b \in GetNeighbors(row.device_a)
        /\ row.device_a \in GetNeighbors(row.device_b)
        /\ row \in SeqSet(GetLinknets(row.device_a))
        /\ row \in SeqSet(GetLinknets(row.device_b))

C19_Witness ==
    /\ Len(linknets) = MaxLinknets
    /\ \E k \in 1..Len(linknets) :
          /\ linknets[k].device_a > linknets[k].device_b
          /\ GetNeighbors(linknets[k].device_b) = {linknets[k].device_a}
          /\ GetNeighbors(linknets[k].device_a) = {linknets[k].device_b}

\* C20 (as claimed): when a run has stopped, by returning or by raising, every
\* device whose stored hash the run replaced was also marked synchronized by
\* the run, and every device the run marked synchronized still is.
C20_PostCommitAtomicPerDevice ==
    \A r \in Runs :
        LET me == run[r] IN
        me.pc \in Terminal
            => /\ \A d \in me.wrote_hash : d \in me.wrote_sync /\ synchronized[d] = TRUE
               /\ \A d \in me.wrote_sync : synchronized[d] = TRUE

\* C21 (as claimed): the task of a DIST device never fails in the loop over
\* the interfaces of its settings, and every interface the loop derives
\* carries the number its index lookup returned, or 0 when that lookup failed.
C21_InterfaceIndexFromLookup ==
    \A h \in Devices :
        LET t == task[h] IN
        t.devtype = "DIST"
            => /\ t.error # "interfaces"
               /\ t.stage \in {"merged", "rendered", "done"}
                     => \A k \in 1..Len(t.device_variables.interfaces) :
                           LET intf == t.device_variables.interfaces[k]
                               looked_up == InterfaceIndexNum(intf.ifname)
                           IN intf.ifindexnum = IF looked_up = None THEN 0 ELSE looked_up

\* C22: a run whose drift loop could not read the hash of the running
\* configuration of a selected device that has a stored hash ends there with
\* an error, with force set or not: it has started no pipeline and has written
\* no device's stored hash or synchronized flag.
C22_GateHashFailureAbortsRun ==
    \A r \in Runs :
        LET me == run[r] IN
        me.unread # {}
            => /\ me.pc = "gate_hash_error"
               /\ RunResult(me).kind = "exception"
               /\ me.attempted = {}
               /\ me.wrote_hash = {}
               /\ me.wrote_sync = {}
               /\ \A d \in me.unread : config_hash[d] # None

C22_Witness ==
    \E r \in Runs :
        /\ run[r].pc = "gate_hash_error"
        /\ run[r].force = TRUE
        /\ run[r].dry_run = FALSE
        /\ Len(run[r].device_list) >= 2
        /\ run[r].unread # {}

\* C23 (as claimed): every device a run has selected, pushed to, stored a hash
\* for or marked synchronized is managed, whichever selector the run used.
C23_OnlyManagedDevicesTouched ==
    \A r \in Runs :
        LET me == run[r] IN
        \A d \in SeqSet(me.device_list) \cup me.attempted
                    \cup me.wrote_hash \cup me.wrote_sync : managed[d]

\* -------------------------------------------------------- specifications
Steps ==
    \/ \E r \in Runs : GateStep(r)
    \/ \E r \in Runs : GateDecide(r)
    \/ \E r \in Runs, device \in Devices, ok \in BOOLEAN :
          PushDevice(r, device, ok)
    \/ \E r \in Runs : NornirRunRaises(r)
    \/ \E r \in Runs : PipelineDone(r)
    \/ \E r \in Runs : HashStep(r)
    \/ \E r \in Runs : MarkSynchronized(r)
    \/ \E r \in Runs : Return(r)
    \/ \E device \in Devices, config \in Configs : AlterOutside(device, config)

\* Jobs one after the other: a job is started only when no other is running
Next ==
    \/ \E r \in Runs, hostname \in Devices \cup {None},
          devtype \in DeviceTypes \cup {NoType}, dry_run \in BOOLEAN, force \in BOOLEAN :
          /\ \A q \in Runs : ~Active(q)
          /\ Start(r, hostname, devtype, dry_run, force)
    \/ Steps

Spec == Init /\ [][Next]_vars

\* Jobs as the scheduler's worker pool runs them: a job may be started while
\* another one is running
NextConc ==
    \/ \E r \in Runs, hostname \in Devices \cup {None},
          devtype \in DeviceTypes \cup {NoType}, dry_run \in BOOLEAN, force \in BOOLEAN :
          Start(r, hostname, devtype, dry_run, force)
    \/ Steps

SpecConc == Init /\ [][NextConc]_vars
====
